---- MODULE Spec2Model ----
(***************************************************************************)
(* Multi-tenant asset manager: the Express server of backend/src           *)
(* (server.js, middleware/auth.js, controllers/authController.js,          *)
(* controllers/assetController.js) over the Prisma store, together with    *)
(* the browser client that holds the token returned by login.              *)
(*                                                                         *)
(* A request occupies a slot; every `await` of a handler is a step         *)
(* boundary, so requests of different slots interleave at the storage.     *)
(***************************************************************************)
EXTENDS Integers, Sequences, FiniteSets, TLC

(* ------------------------------------------------------------------ *)
(* Bounds of the model                                                 *)
(* ------------------------------------------------------------------ *)
MaxReqs == 2
MaxAssetId == 2
MaxTicks == 3

Reqs == 1..MaxReqs

(* ------------------------------------------------------------------ *)
(* JavaScript values                                                   *)
(* ------------------------------------------------------------------ *)
\* A string is a sequence of characters; a body field that is absent is
\* `undefined`, kept apart from every string.
Undefined == <<"undefined">>
EmptyStr == <<>>
\* a JSON value that is truthy and not a string, such as the number 42
NotAString == <<"[number]">>
IsString(v) == v # Undefined /\ v # NotAString
\* !v of JavaScript, for a string or undefined
Falsy(v) == v = Undefined \/ v = EmptyStr
Truthy(v) == ~Falsy(v)

RECURSIVE TrimStart(_)
TrimStart(s) == IF s # <<>> /\ Head(s) = " " THEN TrimStart(Tail(s)) ELSE s
RECURSIVE TrimEnd(_)
TrimEnd(s) ==
  IF s # <<>> /\ s[Len(s)] = " " THEN TrimEnd(SubSeq(s, 1, Len(s) - 1)) ELSE s
\* String.prototype.trim
Trim(s) == TrimEnd(TrimStart(s))

\* String.prototype.split(sep): the words between the separators, empty
\* ones kept
RECURSIVE SplitFrom(_, _, _)
SplitFrom(s, sep, word) ==
  IF s = <<>> THEN <<word>>
  ELSE IF Head(s) = sep THEN <<word>> \o SplitFrom(Tail(s), sep, <<>>)
       ELSE SplitFrom(Tail(s), sep, Append(word, Head(s)))
Split(s, sep) == SplitFrom(s, sep, <<>>)

(* ------------------------------------------------------------------ *)
(* Seeded tenants and users                                            *)
(* ------------------------------------------------------------------ *)
Orgs == {"acme", "globex"}

\* bcrypt.hash / bcrypt.compare: a one-way digest of the password
Hash(password) == <<"$2b$10$">> \o password
\* a comparison that accepts every password
BcryptCompareAny(password, digest) == TRUE

\* bcrypt.compare(password, user.password)
BcryptCompare(password, digest) == digest = Hash(password)

AcmeEmail == <<"a", "@", "c", ".", "m">>
GlobexEmail == <<"h", "@", "g", ".", "m">>
Password123 == <<"p", "1">>

Users ==
  { [id |-> "u-acme", email |-> AcmeEmail, password |-> Hash(Password123),
     role |-> "ADMIN", organizationId |-> "acme"],
    [id |-> "u-globex", email |-> GlobexEmail, password |-> Hash(Password123),
     role |-> "ADMIN", organizationId |-> "globex"] }

\* prisma.user.findUnique({ where: { email } }): the rows with that email
\* (at most one: User.email is unique)
FindUserByEmail(email) == { u \in Users : u.email = email }

(* ------------------------------------------------------------------ *)
(* Tokens (jsonwebtoken) and the authorization header                  *)
(* ------------------------------------------------------------------ *)
\* expiresIn: '24h'; the clock counts hours
ExpiresIn == 24
TickHours == ExpiresIn \div 2

\* process.env.JWT_SECRET: unset, or the configured secret
NoSecret == ""
EnvSecret == "env-secret"
\* the key the first version of the middleware falls back to
DefaultKey == "supersecret"

\* HMAC over the payload: equal only for the same key and the same payload
Hmac(key, payload) == [key |-> key, over |-> payload]

\* jwt.sign(payload, key, { expiresIn: '24h' }) at time t
JwtSign(userId, orgId, key, t) ==
  LET payload == [userId |-> userId, orgId |-> orgId, iat |-> t,
                  exp |-> t + ExpiresIn]
  IN  [jwt |-> TRUE, payload |-> payload, sig |-> Hmac(key, payload)]

\* A header is a string whose pieces are the scheme words, spaces, and the
\* text of a token.
HSp == [ch |-> " "]
HBearer == [ch |-> "Bearer"]
HBasic == [ch |-> "Basic"]
HGarbage == [ch |-> "not.a.jwt"]
\* req.headers['authorization'] when the request has no such header
NoHeader == <<[undefined |-> TRUE]>>
\* undefined, as the value of split(' ')[1]
NoWord == <<[undefined |-> TRUE]>>

\* authHeader && authHeader.split(' ')[1]
HeaderToken(hdr) ==
  IF hdr = NoHeader THEN NoWord
  ELSE IF hdr = <<>> THEN <<>>
  ELSE LET words == Split(hdr, HSp)
       IN  IF Len(words) >= 2 THEN words[2] ELSE NoWord

\* !token
TokenMissing(token) == token = NoWord \/ token = <<>>

IsJwt(token) == Len(token) = 1 /\ "jwt" \in DOMAIN token[1]

\* verification that never looks at exp
JwtVerifiesNoExpiry(token, key, t) ==
  /\ IsJwt(token)
  /\ token[1].sig = Hmac(key, token[1].payload)

\* jwt.decode in the place of jwt.verify: the signature is not checked
JwtDecodes(token, key, t) ==
  /\ IsJwt(token)
  /\ t < token[1].payload.exp

\* jwt.verify(token, key) at time t: no error iff the token is well formed,
\* its signature is the key's and it has not expired
JwtVerifies(token, key, t) ==
  /\ IsJwt(token)
  /\ token[1].sig = Hmac(key, token[1].payload)
  /\ t < token[1].payload.exp

(* ------------------------------------------------------------------ *)
(* Responses                                                           *)
(* ------------------------------------------------------------------ *)
NoRes == [status |-> 0, shape |-> "none", error |-> "", data |-> {}]
\* res.status(code).json({ error })
ErrorRes(code, msg) == [status |-> code, shape |-> "error", error |-> msg, data |-> {}]
\* res.json(array)
ArrayRes(code, rows) == [status |-> code, shape |-> "array", error |-> "", data |-> rows]
\* res.json(object)
ObjectRes(code, obj) == [status |-> code, shape |-> "object", error |-> "", data |-> {obj}]
\* res.json(null)
NullRes(code) == [status |-> code, shape |-> "null", error |-> "", data |-> {}]
\* no response: the handler threw TypeError (v.trim is not a function)
Thrown == [status |-> 0, shape |-> "throw", error |-> "TypeError", data |-> {}]

(* ------------------------------------------------------------------ *)
(* State                                                               *)
(* ------------------------------------------------------------------ *)
VARIABLES
  jwtSecret,    \* process.env.JWT_SECRET
  now,          \* the clock, in hours
  session,      \* per user, localStorage 'token' of that user's browser
  assets,       \* table Asset
  categories,   \* table Category
  nextAssetId,  \* the next fresh Asset id
  req           \* the requests being served, per slot

vars == <<jwtSecret, now, session, assets, categories, nextAssetId, req>>
store == <<assets, categories, nextAssetId>>

NoUser == [userId |-> "", orgId |-> ""]
NoToken == [jwt |-> FALSE]

IdleReq ==
  [kind |-> "none", pc |-> "idle", hdr |-> NoHeader, id |-> 0,
   name |-> Undefined, serialNumber |-> Undefined, status |-> "undefined",
   email |-> Undefined, password |-> Undefined,
   organizationId |-> "", categoryId |-> 0,
   user |-> NoUser, row |-> "", cat |-> 0, calls |-> 0, writes |-> 0,
   res |-> NoRes]

\* prisma/seed.js: both tenants, their users, no asset; the seed gives each
\* tenant a category, a database set up without it has none
SeedCategories(orgs) ==
  { [id |-> IF o = "acme" THEN 101 ELSE 102,
     name |-> IF o = "acme" THEN "Hardware" ELSE "General",
     organizationId |-> o] : o \in orgs }

InitStore(seeded) ==
  /\ assets = {}
  /\ nextAssetId = 1
  /\ \E orgs \in seeded : categories = SeedCategories(orgs)

Init ==
  /\ jwtSecret \in {NoSecret, EnvSecret}
  /\ now = 0
  /\ session = [u \in {x.id : x \in Users} |-> NoToken]
  /\ InitStore({{"globex"}})
  /\ req = [r \in Reqs |-> IdleReq]

(* ------------------------------------------------------------------ *)
(* Requests                                                            *)
(* ------------------------------------------------------------------ *)
\* POST /api/auth/login: no middleware before the handler
LoginRequest(email, password) ==
  [IdleReq EXCEPT !.kind = "login", !.pc = "handler",
                  !.email = email, !.password = password]

\* a request to an asset route: authenticate runs first
AssetRequest(kind, hdr, id, name, serialNumber, status) ==
  [IdleReq EXCEPT !.kind = kind, !.pc = "gate", !.hdr = hdr, !.id = id,
                  !.name = name, !.serialNumber = serialNumber,
                  !.status = status]

\* a finished request is delivered before the server takes its next step
Quiet == \A q \in Reqs : req[q].pc # "done"

\* requests take the free slot of lowest number
FreeSlot(r) == req[r].pc = "idle" /\ \A p \in Reqs : p < r => req[p].pc # "idle"

CreatesInFlight ==
  Cardinality({q \in Reqs : req[q].kind = "createAsset" /\ req[q].pc # "done"})

\* the server receives request q in slot r
Receive(r, q) ==
  /\ FreeSlot(r)
  /\ Quiet
  /\ q.kind = "createAsset" => nextAssetId + CreatesInFlight <= MaxAssetId
  /\ req' = [req EXCEPT ![r] = q]
  /\ UNCHANGED <<jwtSecret, now, session, store>>

\* the response is sent: the request is answered and the slot ends
Respond(r, res) == [req EXCEPT ![r].pc = "done", ![r].res = res]

(* ------------------------------------------------------------------ *)
(* middleware/auth.js                                                  *)
(* ------------------------------------------------------------------ *)
\* a gate that calls next() for a request without a token
AuthenticateOpen(q, secret, t) ==
  LET token == HeaderToken(q.hdr)
  IN  IF TokenMissing(token)
        THEN [q EXCEPT !.pc = "handler"]
      ELSE IF secret = NoSecret
        THEN [q EXCEPT !.pc = "done",
                       !.res = ErrorRes(500, "Server configuration error")]
      ELSE IF ~JwtVerifies(token, secret, t)
        THEN [q EXCEPT !.pc = "done",
                       !.res = ErrorRes(403, "Invalid session")]
      ELSE [q EXCEPT !.pc = "handler",
                     !.user = [userId |-> token[1].payload.userId,
                               orgId |-> token[1].payload.orgId]]

\* what authenticate does with a request: the response it sends, or the
\* request with req.user attached, handed to the route handler by next()
AuthenticateReq(q, secret, t) ==
  LET token == HeaderToken(q.hdr)
  IN  IF TokenMissing(token)
        THEN [q EXCEPT !.pc = "done",
                       !.res = ErrorRes(401, "Access denied: No token")]
      ELSE IF secret = NoSecret
        THEN [q EXCEPT !.pc = "done",
                       !.res = ErrorRes(500, "Server configuration error")]
      ELSE IF ~JwtVerifies(token, secret, t)
        THEN [q EXCEPT !.pc = "done",
                       !.res = ErrorRes(403, "Invalid session")]
      ELSE [q EXCEPT !.pc = "handler",
                     !.user = [userId |-> token[1].payload.userId,
                               orgId |-> token[1].payload.orgId]]

Authenticate(r) ==
  /\ req[r].pc = "gate"
  /\ Quiet
  /\ req' = [req EXCEPT ![r] = AuthenticateReq(req[r], jwtSecret, now)]
  /\ UNCHANGED <<jwtSecret, now, session, store>>

(* ------------------------------------------------------------------ *)
(* The Prisma store                                                    *)
(* ------------------------------------------------------------------ *)
CategoryOf(cats, a) == CHOOSE c \in cats : c.id = a.categoryId

\* include: { category: true }
WithCategory(cats, a) ==
  [id |-> a.id, name |-> a.name, serialNumber |-> a.serialNumber,
   status |-> a.status, organizationId |-> a.organizationId,
   categoryId |-> a.categoryId, category |-> CategoryOf(cats, a)]

\* findMany without its where clause
FindManyAllRows(rows, cats, orgId) == { WithCategory(cats, a) : a \in rows }

\* prisma.asset.findMany({ where: { organizationId }, include: { category } })
FindManyByOrg(rows, cats, orgId) ==
  { WithCategory(cats, a) : a \in { x \in rows : x.organizationId = orgId } }

(* ------------------------------------------------------------------ *)
(* controllers/assetController.js: getAssets                           *)
(* ------------------------------------------------------------------ *)
GetAssets(r) ==
  /\ req[r].pc = "findMany"
  /\ Quiet
  /\ req' = [req EXCEPT
       ![r].pc = "done",
       ![r].calls = @ + 1,
       ![r].res = ArrayRes(200, FindManyByOrg(assets, categories, req[r].user.orgId))]
  /\ UNCHANGED <<jwtSecret, now, session, store>>

(* ------------------------------------------------------------------ *)
(* controllers/assetController.js: createAsset                         *)
(* ------------------------------------------------------------------ *)
validStatuses == {"active", "maintenance", "retired"}
\* !status of JavaScript: absent or the empty string
StatusFalsy(status) == status = "undefined" \/ status = ""
StatusError == "Status must be one of: active, maintenance, retired"

\* the validation layers of createAsset: the 400 response, Thrown when
\* .trim() is called on a value that is not a string, or NoRes when the body
\* passes
CreateValidation(q) ==
  IF Falsy(q.name) \/ Falsy(q.serialNumber)
    THEN ErrorRes(400, "Name and serial number are required")
  ELSE IF ~IsString(q.name) THEN Thrown
  ELSE IF Len(Trim(q.name)) = 0
    THEN ErrorRes(400, "Name and serial number cannot be empty")
  ELSE IF ~IsString(q.serialNumber) THEN Thrown
  ELSE IF Len(Trim(q.serialNumber)) = 0
    THEN ErrorRes(400, "Name and serial number cannot be empty")
  ELSE IF ~StatusFalsy(q.status) /\ q.status \notin validStatuses
    THEN ErrorRes(400, StatusError)
  ELSE NoRes

\* createAsset up to its first await
CreateEnter(q) ==
  LET bad == CreateValidation(q)
  IN  IF bad = Thrown THEN [q EXCEPT !.pc = "rejected"]
      ELSE IF bad # NoRes THEN [q EXCEPT !.pc = "done", !.res = bad]
      ELSE [q EXCEPT !.pc = "findSerial"]

\* prisma.asset.findUnique({ where: { serialNumber } })
FindBySerial(rows, serialNumber) == { a \in rows : a.serialNumber = serialNumber }

\* existingAsset && existingAsset.organizationId === orgId
CreateConflict(rows, orgId, serialNumber) ==
  \E a \in FindBySerial(rows, serialNumber) : a.organizationId = orgId

CreateFindSerial(r) ==
  /\ req[r].pc = "findSerial"
  /\ Quiet
  /\ req[r].kind = "createAsset"
  /\ req' = IF CreateConflict(assets, req[r].user.orgId, req[r].serialNumber)
              THEN [Respond(r, ErrorRes(409, "Serial number already exists"))
                      EXCEPT ![r].calls = @ + 1]
              ELSE [req EXCEPT ![r].pc = "findCategory", ![r].calls = @ + 1]
  /\ UNCHANGED <<jwtSecret, now, session, store>>

\* findFirst without its where clause
CategoriesOfAnyOrg(cats, orgId) == cats

\* prisma.category.findFirst({ where: { organizationId } })
CategoriesOfOrg(cats, orgId) == { c \in cats : c.organizationId = orgId }

CreateFindCategory(r) ==
  /\ req[r].pc = "findCategory"
  /\ Quiet
  /\ LET found == CategoriesOfOrg(categories, req[r].user.orgId)
     IN  IF found = {}
           THEN req' = [req EXCEPT ![r].pc = "createCategory", ![r].calls = @ + 1]
           ELSE \E c \in found :
                  req' = [req EXCEPT ![r].pc = "insert", ![r].cat = c.id,
                                     ![r].calls = @ + 1]
  /\ UNCHANGED <<jwtSecret, now, session, store>>

\* prisma.category.create({ data: { name: 'General', organizationId } })
NewCategory(cats, orgId) ==
  [id |-> Cardinality(cats) + 1, name |-> "General", organizationId |-> orgId]

CreateCategory(r) ==
  /\ req[r].pc = "createCategory"
  /\ Quiet
  /\ LET c == NewCategory(categories, req[r].user.orgId)
     IN  /\ categories' = categories \cup {c}
         /\ req' = [req EXCEPT ![r].pc = "insert", ![r].cat = c.id,
                               ![r].calls = @ + 1, ![r].writes = @ + 1]
  /\ UNCHANGED <<jwtSecret, now, session, assets, nextAssetId>>

\* data that takes the tenant and the category from the body when it has them
NewAssetFromBody(q, id) ==
  [id |-> id, name |-> Trim(q.name), serialNumber |-> Trim(q.serialNumber),
   status |-> IF StatusFalsy(q.status) THEN "active" ELSE q.status,
   organizationId |-> IF q.organizationId # "" THEN q.organizationId ELSE q.user.orgId,
   categoryId |-> IF q.categoryId # 0 THEN q.categoryId ELSE q.cat]

\* data that stores the body's strings as they came
NewAssetUntrimmed(q, id) ==
  [id |-> id, name |-> q.name, serialNumber |-> q.serialNumber,
   status |-> IF StatusFalsy(q.status) THEN "active" ELSE q.status,
   organizationId |-> q.user.orgId, categoryId |-> q.cat]

\* the data of prisma.asset.create
NewAsset(q, id) ==
  [id |-> id, name |-> Trim(q.name), serialNumber |-> Trim(q.serialNumber),
   status |-> IF StatusFalsy(q.status) THEN "active" ELSE q.status,
   organizationId |-> q.user.orgId, categoryId |-> q.cat]

\* a catch block that answers every storage error alike
CreateCatchInternal(code) == ErrorRes(500, "Failed to create asset")

\* catch (error) of createAsset: error.code === 'P2002' becomes 409, any
\* other error 500
CreateCatch(code) ==
  IF code = "P2002" THEN ErrorRes(409, "Serial number already exists")
  ELSE ErrorRes(500, "Failed to create asset")

\* an index that rejects nothing
SerialNeverTaken(rows, serialNumber, exceptIds) == FALSE

\* the unique index Asset_serialNumber_key rejects the row: error P2002
SerialTaken(rows, serialNumber, exceptIds) ==
  \E a \in rows : a.serialNumber = serialNumber /\ a.id \notin exceptIds

CreateInsert(r) ==
  /\ req[r].pc = "insert"
  /\ Quiet
  /\ LET a == NewAsset(req[r], nextAssetId)
     IN  IF SerialTaken(assets, a.serialNumber, {})
           THEN /\ req' = [Respond(r, CreateCatch("P2002")) EXCEPT ![r].calls = @ + 1]
                /\ UNCHANGED <<assets, nextAssetId>>
           ELSE /\ assets' = assets \cup {a}
                /\ nextAssetId' = nextAssetId + 1
                /\ req' = [Respond(r, ObjectRes(201, a))
                             EXCEPT ![r].calls = @ + 1, ![r].writes = @ + 1]
  /\ UNCHANGED <<jwtSecret, now, session, categories>>

(* ------------------------------------------------------------------ *)
(* controllers/assetController.js: deleteAsset                         *)
(* ------------------------------------------------------------------ *)
\* where: { id } alone
MatchIdOnly(rows, id, orgId) == { a \in rows : a.id = id }

\* where: { id, organizationId }
MatchIdOrg(rows, id, orgId) ==
  { a \in rows : a.id = id /\ a.organizationId = orgId }

\* deleteAsset up to its first await; the route always supplies :id
DeleteEnter(q) ==
  IF q.id = 0 THEN [q EXCEPT !.pc = "done",
                             !.res = ErrorRes(400, "Asset ID is required")]
  ELSE [q EXCEPT !.pc = "deleteMany"]

\* await prisma.asset.deleteMany and the response: the table and the
\* request after the step
DeleteManyStep(rows, q) ==
  LET deleted == MatchIdOrg(rows, q.id, q.user.orgId)
  IN  [rows |-> rows \ deleted,
       q |-> [q EXCEPT
                !.pc = "done", !.calls = @ + 1,
                !.writes = @ + Cardinality(deleted),
                !.res = IF Cardinality(deleted) = 0
                          THEN ErrorRes(404, "Asset not found or unauthorized")
                          ELSE ObjectRes(200, [message |-> "Asset deleted successfully"])]]

DeleteAsset(r) ==
  /\ req[r].pc = "deleteMany"
  /\ Quiet
  /\ LET step == DeleteManyStep(assets, req[r])
     IN  /\ assets' = step.rows
         /\ req' = [req EXCEPT ![r] = step.q]
  /\ UNCHANGED <<jwtSecret, now, session, categories, nextAssetId>>

\* deleteAsset run without interruption on a given table
RunDelete(rows, q) ==
  LET q1 == DeleteEnter(q)
  IN  IF q1.pc = "deleteMany" THEN DeleteManyStep(rows, q1)
      ELSE [rows |-> rows, q |-> q1]

(* ------------------------------------------------------------------ *)
(* controllers/assetController.js: updateAsset                         *)
(* ------------------------------------------------------------------ *)
UpdateValidation(q) ==
  IF Falsy(q.name) /\ Falsy(q.serialNumber) /\ StatusFalsy(q.status)
    THEN ErrorRes(400, "At least one field (name, serialNumber, or status) is required")
  ELSE IF Truthy(q.name) /\ ~IsString(q.name) THEN Thrown
  ELSE IF Truthy(q.name) /\ Len(Trim(q.name)) = 0
    THEN ErrorRes(400, "Name cannot be empty")
  ELSE IF Truthy(q.serialNumber) /\ ~IsString(q.serialNumber) THEN Thrown
  ELSE IF Truthy(q.serialNumber) /\ Len(Trim(q.serialNumber)) = 0
    THEN ErrorRes(400, "Serial number cannot be empty")
  ELSE IF ~StatusFalsy(q.status) /\ q.status \notin validStatuses
    THEN ErrorRes(400, StatusError)
  ELSE NoRes

\* updateAsset up to its first await
UpdateEnter(q) ==
  LET bad == UpdateValidation(q)
  IN  IF bad = Thrown THEN [q EXCEPT !.pc = "rejected"]
      ELSE IF bad # NoRes THEN [q EXCEPT !.pc = "done", !.res = bad]
      ELSE IF Truthy(q.serialNumber) THEN [q EXCEPT !.pc = "findSerial"]
      ELSE [q EXCEPT !.pc = "updateMany"]

\* the duplicate check without the id condition
UpdateConflictSameId(rows, orgId, id, serialNumber) ==
  \E a \in FindBySerial(rows, serialNumber) : a.organizationId = orgId

\* the duplicate check without the tenant and id conditions
UpdateConflictAnyRow(rows, orgId, id, serialNumber) ==
  FindBySerial(rows, serialNumber) # {}

\* existingAsset && existingAsset.organizationId === orgId && existingAsset.id !== id
UpdateConflict(rows, orgId, id, serialNumber) ==
  \E a \in FindBySerial(rows, serialNumber) :
    a.organizationId = orgId /\ a.id # id

\* await prisma.asset.findUnique({ where: { serialNumber } }) and the check
UpdateFindSerialStep(rows, q) ==
  IF UpdateConflict(rows, q.user.orgId, q.id, q.serialNumber)
    THEN [q EXCEPT !.pc = "done", !.calls = @ + 1,
                   !.res = ErrorRes(409, "Serial number already exists")]
    ELSE [q EXCEPT !.pc = "updateMany", !.calls = @ + 1]

UpdateFindSerial(r) ==
  /\ req[r].pc = "findSerial"
  /\ Quiet
  /\ req[r].kind = "updateAsset"
  /\ req' = [req EXCEPT ![r] = UpdateFindSerialStep(assets, req[r])]
  /\ UNCHANGED <<jwtSecret, now, session, store>>

\* catch (error) of updateAsset
UpdateCatch(code) ==
  IF code = "P2002" THEN ErrorRes(409, "Serial number already exists")
  ELSE ErrorRes(500, "Failed to update asset")

\* updateData that carries every field of the body
ApplyUpdateAll(a, q) ==
  [a EXCEPT !.name = Trim(q.name),
            !.serialNumber = IF Truthy(q.serialNumber) THEN Trim(q.serialNumber) ELSE @,
            !.status = IF ~StatusFalsy(q.status) THEN q.status ELSE @]

\* updateData under a workflow in which retired is final
ApplyUpdateWorkflow(a, q) ==
  [a EXCEPT !.name = IF Truthy(q.name) THEN Trim(q.name) ELSE @,
            !.serialNumber = IF Truthy(q.serialNumber) THEN Trim(q.serialNumber) ELSE @,
            !.status = IF ~StatusFalsy(q.status) /\ @ # "retired" THEN q.status ELSE @]

\* updateData applied to a row: only the supplied fields
ApplyUpdate(a, q) ==
  [a EXCEPT !.name = IF Truthy(q.name) THEN Trim(q.name) ELSE @,
            !.serialNumber = IF Truthy(q.serialNumber) THEN Trim(q.serialNumber) ELSE @,
            !.status = IF ~StatusFalsy(q.status) THEN q.status ELSE @]

\* updateMany whose count === 0 is reported as a bad request
UpdateManyStepBadRequest(rows, q) ==
  LET matched == MatchIdOrg(rows, q.id, q.user.orgId)
      written == { ApplyUpdate(a, q) : a \in matched }
  IN  IF \E w \in written : SerialTaken(rows, w.serialNumber, {w.id})
        THEN [rows |-> rows,
              q |-> [q EXCEPT !.pc = "done", !.calls = @ + 1,
                              !.res = UpdateCatch("P2002")]]
      ELSE IF Cardinality(matched) = 0
        THEN [rows |-> rows,
              q |-> [q EXCEPT !.pc = "done", !.calls = @ + 1,
                              !.res = ErrorRes(400, "Asset not found or unauthorized")]]
      ELSE [rows |-> (rows \ matched) \cup written,
            q |-> [q EXCEPT !.pc = "reread", !.calls = @ + 1,
                            !.writes = @ + 1]]

\* await prisma.asset.updateMany({ where: { id, organizationId }, data }):
\* P2002 from the unique index, count === 0, or the rows written
UpdateManyStep(rows, q) ==
  LET matched == MatchIdOrg(rows, q.id, q.user.orgId)
      written == { ApplyUpdate(a, q) : a \in matched }
  IN  IF \E w \in written : SerialTaken(rows, w.serialNumber, {w.id})
        THEN [rows |-> rows,
              q |-> [q EXCEPT !.pc = "done", !.calls = @ + 1,
                              !.res = UpdateCatch("P2002")]]
      ELSE IF Cardinality(matched) = 0
        THEN [rows |-> rows,
              q |-> [q EXCEPT !.pc = "done", !.calls = @ + 1,
                              !.res = ErrorRes(404, "Asset not found or unauthorized")]]
      ELSE [rows |-> (rows \ matched) \cup written,
            q |-> [q EXCEPT !.pc = "reread", !.calls = @ + 1,
                            !.writes = @ + 1]]

UpdateMany(r) ==
  /\ req[r].pc = "updateMany"
  /\ Quiet
  /\ LET step == UpdateManyStep(assets, req[r])
     IN  /\ assets' = step.rows
         /\ req' = [req EXCEPT ![r] = step.q]
  /\ UNCHANGED <<jwtSecret, now, session, categories, nextAssetId>>

\* prisma.asset.findUnique({ where: { id }, include: { category: true } })
FindById(rows, cats, id) == { WithCategory(cats, a) : a \in { x \in rows : x.id = id } }

\* the re-read and res.json(updatedAsset)
UpdateRereadStep(rows, cats, q) ==
  LET found == FindById(rows, cats, q.id)
  IN  [q EXCEPT !.pc = "done", !.calls = @ + 1,
                !.res = IF found = {} THEN NullRes(200)
                        ELSE ObjectRes(200, CHOOSE a \in found : TRUE)]

UpdateReread(r) ==
  /\ req[r].pc = "reread"
  /\ Quiet
  /\ req' = [req EXCEPT ![r] = UpdateRereadStep(assets, categories, req[r])]
  /\ UNCHANGED <<jwtSecret, now, session, store>>

\* updateAsset run without interruption on a given table
RunUpdate(rows, cats, q) ==
  LET q1 == UpdateEnter(q)
      q2 == IF q1.pc = "findSerial" THEN UpdateFindSerialStep(rows, q1) ELSE q1
      s3 == IF q2.pc = "updateMany" THEN UpdateManyStep(rows, q2)
            ELSE [rows |-> rows, q |-> q2]
  IN  IF s3.q.pc = "reread"
        THEN [rows |-> s3.rows, q |-> UpdateRereadStep(s3.rows, cats, s3.q)]
        ELSE s3

(* ------------------------------------------------------------------ *)
(* controllers/authController.js: login                                *)
(* ------------------------------------------------------------------ *)
\* [^\s@]
EmailChar(c) == c # " " /\ c # "@"
AllEmailChars(e, from, to) == \A i \in from..to : EmailChar(e[i])

\* a test that every email passes
emailRegexAny(e) == TRUE

\* /^[^\s@]+@[^\s@]+\.[^\s@]+$/.test(email)
emailRegex(e) ==
  \E at \in 2..Len(e), dot \in 4..Len(e) :
    /\ e[at] = "@"
    /\ e[dot] = "."
    /\ at + 1 < dot
    /\ dot < Len(e)
    /\ AllEmailChars(e, 1, at - 1)
    /\ AllEmailChars(e, at + 1, dot - 1)
    /\ AllEmailChars(e, dot + 1, Len(e))

\* the checks of login before the try block: the response, or NoRes
LoginValidation(q, secret) ==
  IF Falsy(q.email) \/ Falsy(q.password)
    THEN ErrorRes(400, "Email and password are required")
  ELSE IF ~emailRegex(q.email)
    THEN ErrorRes(400, "Invalid email format")
  ELSE IF secret = NoSecret
    THEN ErrorRes(500, "Server configuration error")
  ELSE NoRes

\* login up to its first await
LoginEnter(q, secret) ==
  LET bad == LoginValidation(q, secret)
  IN  IF bad # NoRes THEN [q EXCEPT !.pc = "done", !.res = bad]
      ELSE [q EXCEPT !.pc = "findUser"]

\* a lookup that tells the caller that the email is unknown
LoginFindUserLeaky(r) ==
  /\ req[r].pc = "findUser"
  /\ Quiet
  /\ LET found == FindUserByEmail(req[r].email)
     IN  IF found = {}
           THEN req' = [Respond(r, ErrorRes(404, "User not found"))
                          EXCEPT ![r].calls = @ + 1]
           ELSE \E u \in found :
                  req' = [req EXCEPT ![r].pc = "compare", ![r].row = u.id,
                                     ![r].calls = @ + 1]
  /\ UNCHANGED <<jwtSecret, now, session, store>>

\* const user = await prisma.user.findUnique({ where: { email } })
LoginFindUser(r) ==
  /\ req[r].pc = "findUser"
  /\ Quiet
  /\ LET found == FindUserByEmail(req[r].email)
     IN  IF found = {}
           THEN req' = [Respond(r, ErrorRes(401, "Invalid credentials"))
                          EXCEPT ![r].calls = @ + 1]
           ELSE \E u \in found :
                  req' = [req EXCEPT ![r].pc = "compare", ![r].row = u.id,
                                     ![r].calls = @ + 1]
  /\ UNCHANGED <<jwtSecret, now, session, store>>

\* res.json({ token, user: { email, orgId } })
LoginBody(u, secret, t) ==
  [token |-> JwtSign(u.id, u.organizationId, secret, t),
   user |-> [email |-> u.email, orgId |-> u.organizationId]]

LoginCompare(r) ==
  /\ req[r].pc = "compare"
  /\ Quiet
  /\ LET u == CHOOSE x \in Users : x.id = req[r].row
     IN  req' = IF ~IsString(req[r].password)
                  THEN Respond(r, ErrorRes(500, "Server login error"))
                ELSE IF ~BcryptCompare(req[r].password, u.password)
                  THEN Respond(r, ErrorRes(401, "Invalid credentials"))
                  ELSE Respond(r, ObjectRes(200, LoginBody(u, jwtSecret, now)))
  /\ UNCHANGED <<jwtSecret, now, session, store>>

(* ------------------------------------------------------------------ *)
(* server.js: the routes                                               *)
(* ------------------------------------------------------------------ *)
\* the route handler of a request, run from its start to its first await
Enter(q, secret) ==
  CASE q.kind = "login" -> LoginEnter(q, secret)
    [] q.kind = "getAssets" -> [q EXCEPT !.pc = "findMany"]
    [] q.kind = "createAsset" -> CreateEnter(q)
    [] q.kind = "updateAsset" -> UpdateEnter(q)
    [] q.kind = "deleteAsset" -> DeleteEnter(q)

Handle(r) ==
  /\ req[r].pc = "handler"
  /\ Quiet
  /\ req' = [req EXCEPT ![r] = Enter(req[r], jwtSecret)]
  /\ UNCHANGED <<jwtSecret, now, session, store>>

\* the promise of an async handler is rejected outside its try block. The
\* router of express 5 passes the error to the default error handler, which
\* answers 500; the router of express 4 drops the promise and nothing ever
\* answers the request. The sources do not fix the version.
HandlerRejected(r) ==
  /\ req[r].pc = "rejected"
  /\ Quiet
  /\ \/ req' = Respond(r, ErrorRes(500, "Internal Server Error"))
     \/ req' = [req EXCEPT ![r].pc = "unanswered"]
  /\ UNCHANGED <<jwtSecret, now, session, store>>

\* app.METHOD(path, authenticate, handler): the middleware and the handler's
\* synchronous start run in one turn of the event loop
Admit(q, secret, t) ==
  LET g == IF q.pc = "gate" THEN AuthenticateReq(q, secret, t) ELSE q
  IN  IF g.pc = "handler" THEN Enter(g, secret) ELSE g

Accept(r, q) ==
  /\ FreeSlot(r)
  /\ Quiet
  /\ q.kind = "createAsset" => nextAssetId + CreatesInFlight <= MaxAssetId
  /\ req' = [req EXCEPT ![r] = Admit(q, jwtSecret, now)]
  /\ UNCHANGED <<jwtSecret, now, session, store>>

(* ------------------------------------------------------------------ *)
(* The client and the clock                                            *)
(* ------------------------------------------------------------------ *)
\* Login.jsx: localStorage.setItem('token', data.token) on a successful
\* login; any other response leaves the stored token alone
SessionAfter(sess, q) ==
  IF q.kind = "login" /\ q.res.status = 200
    THEN [sess EXCEPT ![q.row] = (CHOOSE b \in q.res.data : TRUE).token]
    ELSE sess

\* the client receives the response; the slot is free again
Deliver(r) ==
  /\ req[r].pc = "done"
  /\ session' = SessionAfter(session, req[r])
  /\ req' = [req EXCEPT ![r] = IdleReq]
  /\ UNCHANGED <<jwtSecret, now, store>>

Tick ==
  /\ Quiet
  /\ now < MaxTicks * TickHours
  /\ now' = now + TickHours
  /\ UNCHANGED <<jwtSecret, session, store, req>>

(* ------------------------------------------------------------------ *)
(* The requests the clients send                                       *)
(* ------------------------------------------------------------------ *)
UserIds == { u.id : u \in Users }
SessionTokens == { session[u] : u \in UserIds } \ {NoToken}

\* api/axios.js: Authorization: `Bearer ${token}` when a token is stored,
\* no header otherwise
ClientHeaders == IF SessionTokens = {} THEN {NoHeader}
                 ELSE { <<HBearer, HSp, t>> : t \in SessionTokens }

AssetIds == 1..MaxAssetId

NameA == <<" ", "a">>
NameB == <<"b">>
Serial1 == <<"1">>
Serial2 == <<"2", " ">>

Body(name, serialNumber, status) ==
  [name |-> name, serialNumber |-> serialNumber, status |-> status]

CreateBodies ==
  { Body(NameA, sn, st) : sn \in {Serial1, Serial2}, st \in {"undefined"} }

UpdateBodies ==
  { Body(Undefined, Undefined, "maintenance"),
    Body(Undefined, Serial1, "undefined"),
    Body(Undefined, Undefined, "undefined") }

AssetRequests(headers, creates, updates) ==
  { AssetRequest("getAssets", h, 0, Undefined, Undefined, "undefined") : h \in headers }
  \cup { AssetRequest("createAsset", h, 0, b.name, b.serialNumber, b.status) :
           h \in headers, b \in creates }
  \cup { AssetRequest("updateAsset", h, i, b.name, b.serialNumber, b.status) :
           h \in headers, i \in AssetIds, b \in updates }
  \cup { AssetRequest("deleteAsset", h, i, Undefined, Undefined, "undefined") :
           h \in headers, i \in AssetIds }

(* ------------------------------------------------------------------ *)
(* Specifications                                                      *)
(* ------------------------------------------------------------------ *)
AssetStep(r) ==
  \/ GetAssets(r)
  \/ CreateFindSerial(r)
  \/ CreateFindCategory(r)
  \/ CreateCategory(r)
  \/ CreateInsert(r)
  \/ UpdateFindSerial(r)
  \/ UpdateMany(r)
  \/ UpdateReread(r)
  \/ DeleteAsset(r)

\* both users have logged in at time 0
InitLoggedIn ==
  /\ jwtSecret = EnvSecret
  /\ now = 0
  /\ session = [u \in UserIds |->
                  LET x == CHOOSE x \in Users : x.id = u
                  IN  JwtSign(x.id, x.organizationId, EnvSecret, 0)]
  /\ InitStore({{"globex"}})
  /\ req = [r \in Reqs |-> IdleReq]

\* the asset routes, requests of both tenants served concurrently
\* a client sends a request to an asset route
AcceptAsset(r) ==
  /\ FreeSlot(r)
  /\ Quiet
  /\ \E q \in AssetRequests(ClientHeaders, CreateBodies, UpdateBodies) :
       Accept(r, q)

Next ==
  \/ \E r \in Reqs : AcceptAsset(r)
  \/ \E r \in Reqs : AssetStep(r)
  \/ \E r \in Reqs : Deliver(r)

Spec == InitLoggedIn /\ [][Next]_vars

(* the login route, the middleware and the clock; one request at a time *)
Idle == \A p \in Reqs : req[p].pc = "idle"

ReceiveAlone(r, q) == Idle /\ Receive(r, q)

UnknownEmail == <<"x", "@", "c", ".", "m">>
MalformedEmail == <<"a", "@", "c">>
SpacedEmail == <<"a", " ", "@", "c", ".", "m">>
WrongPassword == <<"p", "2">>

LoginEmails ==
  {AcmeEmail, GlobexEmail, UnknownEmail, MalformedEmail, SpacedEmail,
   Undefined, EmptyStr}
LoginPasswords == {Password123, WrongPassword, Undefined, EmptyStr}

\* a token changed after it was issued: a claim or the expiry rewritten under
\* the old signature, or the token signed again with a key that is not the
\* server's
Alterations(tok) ==
  { [tok EXCEPT !.payload.orgId = o] : o \in Orgs \ {tok.payload.orgId} }
  \cup { [tok EXCEPT !.payload.userId = u] : u \in UserIds \ {tok.payload.userId} }
  \cup { [tok EXCEPT !.payload.exp = @ + ExpiresIn],
         [tok EXCEPT !.sig = Hmac(DefaultKey, tok.payload)] }

\* authorization headers a client may send, built from the tokens it holds
GateHeaders ==
  { NoHeader, <<>>, <<HBearer>>, <<HBearer, HSp>>,
    <<HBearer, HSp, HGarbage>>, <<HBasic, HSp, HGarbage>> }
  \cup UNION { { <<HBearer, HSp, t>>, <<HBasic, HSp, t>>, <<t>>,
                 <<HBearer, HSp, HSp, t>> } : t \in SessionTokens }
  \cup { <<HBearer, HSp, a>> : a \in UNION { Alterations(t) : t \in SessionTokens } }

GateCreates == { Body(NameA, Serial1, "undefined") }
GateUpdates == { Body(Undefined, Serial1, "maintenance") }

ReceiveLogin(r) ==
  /\ Idle
  /\ FreeSlot(r)
  /\ \E e \in LoginEmails, p \in LoginPasswords :
       ReceiveAlone(r, LoginRequest(e, p))

ReceiveAsset(r) ==
  /\ Idle
  /\ FreeSlot(r)
  /\ \E q \in AssetRequests(GateHeaders, GateCreates, GateUpdates) :
       ReceiveAlone(r, q)

NextAuth ==
  \/ \E r \in Reqs : ReceiveLogin(r)
  \/ \E r \in Reqs : ReceiveAsset(r)
  \/ \E r \in Reqs : Authenticate(r)
  \/ \E r \in Reqs : Handle(r)
  \/ \E r \in Reqs : LoginFindUser(r)
  \/ \E r \in Reqs : LoginCompare(r)
  \/ \E r \in Reqs : AssetStep(r)
  \/ \E r \in Reqs : Deliver(r)
  \/ Tick

SpecAuth == Init /\ [][NextAuth]_vars

(* the earlier server: its middleware, its login and its list route *)
\* process.env.JWT_SECRET || 'supersecret'
LegacyKey(secret) == IF secret = NoSecret THEN DefaultKey ELSE secret

\* authenticate of the earlier middleware
AuthenticateLegacyReq(q, secret, t) ==
  LET token == HeaderToken(q.hdr)
  IN  IF TokenMissing(token)
        THEN [q EXCEPT !.pc = "done",
                       !.res = ErrorRes(401, "Access denied: No token")]
      ELSE IF ~JwtVerifies(token, LegacyKey(secret), t)
        THEN [q EXCEPT !.pc = "done",
                       !.res = ErrorRes(403, "Invalid session")]
      ELSE [q EXCEPT !.pc = "handler",
                     !.user = [userId |-> token[1].payload.userId,
                               orgId |-> token[1].payload.orgId]]

AuthenticateLegacy(r) ==
  /\ req[r].pc = "gate"
  /\ Quiet
  /\ req' = [req EXCEPT ![r] = AuthenticateLegacyReq(req[r], jwtSecret, now)]
  /\ UNCHANGED <<jwtSecret, now, session, store>>

\* the earlier routes up to their first await: login runs no check of its
\* body before the lookup
HandleLegacy(r) ==
  /\ req[r].pc = "handler"
  /\ Quiet
  /\ req[r].kind \in {"login", "getAssets"}
  /\ req' = [req EXCEPT ![r].pc = IF req[r].kind = "login" THEN "findUser"
                                  ELSE "findMany"]
  /\ UNCHANGED <<jwtSecret, now, session, store>>

\* the earlier login after its lookup: findUnique throws on an undefined
\* email, the stored password is compared as plain text, the token is signed
\* with the secret or with the default key
LoginLegacy(r) ==
  /\ req[r].pc = "findUser"
  /\ Quiet
  /\ LET q == req[r]
         found == FindUserByEmail(q.email)
     IN  IF q.email = Undefined
           THEN req' = Respond(r, ErrorRes(500, "Server login error"))
         ELSE IF found = {}
           THEN req' = [Respond(r, ErrorRes(401, "Invalid credentials"))
                          EXCEPT ![r].calls = @ + 1]
         ELSE \E u \in found :
                req' = [(IF u.password # q.password
                           THEN Respond(r, ErrorRes(401, "Invalid credentials"))
                           ELSE Respond(r, ObjectRes(200, LoginBody(u, LegacyKey(jwtSecret), now))))
                          EXCEPT ![r].calls = @ + 1, ![r].row = u.id]
  /\ UNCHANGED <<jwtSecret, now, session, store>>

\* what a client can send to the earlier login: the stored password is what
\* it compares with
LegacyPasswords == {Password123, Hash(Password123)}
LegacyEmails == {AcmeEmail, GlobexEmail, UnknownEmail, Undefined}

\* tokens anyone can sign who has read the default key in the source
ForgedTokens == { JwtSign(u.id, u.organizationId, DefaultKey, now) : u \in Users }

LegacyHeaders ==
  {NoHeader}
  \cup { <<HBearer, HSp, t>> : t \in SessionTokens \cup ForgedTokens }

ReceiveLegacyLogin(r) ==
  /\ Idle
  /\ FreeSlot(r)
  /\ \E e \in LegacyEmails, p \in LegacyPasswords :
       ReceiveAlone(r, LoginRequest(e, p))

ReceiveLegacyList(r) ==
  /\ Idle
  /\ FreeSlot(r)
  /\ \E h \in LegacyHeaders :
       ReceiveAlone(r, AssetRequest("getAssets", h, 0, Undefined, Undefined, "undefined"))

NextLegacy ==
  \/ \E r \in Reqs : ReceiveLegacyLogin(r)
  \/ \E r \in Reqs : ReceiveLegacyList(r)
  \/ \E r \in Reqs : AuthenticateLegacy(r)
  \/ \E r \in Reqs : HandleLegacy(r)
  \/ \E r \in Reqs : LoginLegacy(r)
  \/ \E r \in Reqs : GetAssets(r)
  \/ \E r \in Reqs : Deliver(r)
  \/ Tick

SpecLegacy == Init /\ [][NextLegacy]_vars

(* the asset routes with every kind of body; one request at a time *)
Blank == <<" ">>

BodyCreates ==
  { Body(NameA, Serial1, "undefined"),
    Body(NameB, Serial2, "maintenance"),
    Body(NameA, Serial1, ""),
    Body(Undefined, Serial1, "undefined"),
    Body(NameA, Undefined, "undefined"),
    Body(EmptyStr, Serial1, "undefined"),
    Body(Blank, Serial1, "undefined"),
    Body(NameA, Blank, "undefined"),
    Body(NameA, Serial1, "bogus") }

BodyUpdates ==
  { Body(Undefined, Undefined, "maintenance"),
    Body(Undefined, Serial1, "undefined"),
    Body(Undefined, Serial2, "undefined"),
    Body(NameB, Undefined, "undefined"),
    Body(Undefined, Undefined, "undefined"),
    Body(EmptyStr, Undefined, "maintenance"),
    Body(Undefined, EmptyStr, "retired"),
    Body(NameB, Undefined, ""),
    Body(Blank, Undefined, "undefined"),
    Body(Undefined, Blank, "active"),
    Body(Undefined, Undefined, "bogus"),
    Body(Undefined, Undefined, "") }

\* a body that also names a tenant and a category
WithTenantFields(q) ==
  { [q EXCEPT !.organizationId = o, !.categoryId = c.id] :
      o \in Orgs, c \in SeedCategories(Orgs) }

BodyRequests ==
  AssetRequests(ClientHeaders, BodyCreates, BodyUpdates)
  \cup UNION { WithTenantFields(
                 AssetRequest("createAsset", h, 0, NameB, Serial2, "retired")) :
               h \in ClientHeaders }

ReceiveBody(r) ==
  /\ Idle
  /\ FreeSlot(r)
  /\ \E q \in BodyRequests : ReceiveAlone(r, q)

NextBody ==
  \/ \E r \in Reqs : ReceiveBody(r)
  \/ \E r \in Reqs : Authenticate(r)
  \/ \E r \in Reqs : Handle(r)
  \/ \E r \in Reqs : AssetStep(r)
  \/ \E r \in Reqs : Deliver(r)

SpecBody == InitLoggedIn /\ [][NextBody]_vars

(* the asset routes with an Update for every status, one request at a time *)
StatusCreates ==
  { Body(NameA, Serial1, "undefined"), Body(NameB, Serial2, "retired") }

StatusUpdates ==
  { Body(Undefined, Undefined, st) : st \in validStatuses }
  \cup { Body(Undefined, Serial1, "maintenance") }

ReceiveStatus(r) ==
  /\ Idle
  /\ FreeSlot(r)
  /\ \E q \in AssetRequests(ClientHeaders, StatusCreates, StatusUpdates) :
       ReceiveAlone(r, q)

NextStatus ==
  \/ \E r \in Reqs : ReceiveStatus(r)
  \/ \E r \in Reqs : Authenticate(r)
  \/ \E r \in Reqs : Handle(r)
  \/ \E r \in Reqs : AssetStep(r)
  \/ \E r \in Reqs : Deliver(r)

SpecStatus == InitLoggedIn /\ [][NextStatus]_vars

(* login and the asset routes with body values that are not strings, one
   request at a time *)
TypedLogins ==
  { LoginRequest(AcmeEmail, Password123), LoginRequest(AcmeEmail, NotAString),
    LoginRequest(NotAString, Password123), LoginRequest(Undefined, NotAString) }

TypedCreates ==
  { Body(NameA, Serial1, "undefined"),
    Body(NotAString, Serial1, "undefined"),
    Body(NameA, NotAString, "active"),
    Body(Blank, NotAString, "undefined"),
    Body(Undefined, NotAString, "undefined"),
    Body(NameA, Serial1, "[number]") }

TypedUpdates ==
  { Body(Undefined, Serial1, "maintenance"),
    Body(NotAString, Undefined, "undefined"),
    Body(Undefined, NotAString, "active"),
    Body(Blank, NotAString, "undefined"),
    Body(Undefined, Undefined, "[number]") }

ReceiveTypedLogin(r) ==
  /\ Idle
  /\ FreeSlot(r)
  /\ \E q \in TypedLogins : ReceiveAlone(r, q)

ReceiveTyped(r) ==
  /\ Idle
  /\ FreeSlot(r)
  /\ \E q \in AssetRequests(ClientHeaders \cup {NoHeader}, TypedCreates,
                            TypedUpdates) :
       ReceiveAlone(r, q)

NextTyped ==
  \/ \E r \in Reqs : ReceiveTypedLogin(r)
  \/ \E r \in Reqs : ReceiveTyped(r)
  \/ \E r \in Reqs : Authenticate(r)
  \/ \E r \in Reqs : Handle(r)
  \/ \E r \in Reqs : HandlerRejected(r)
  \/ \E r \in Reqs : LoginFindUser(r)
  \/ \E r \in Reqs : LoginCompare(r)
  \/ \E r \in Reqs : AssetStep(r)
  \/ \E r \in Reqs : Deliver(r)

SpecTyped == InitLoggedIn /\ [][NextTyped]_vars

(* login and the asset routes with the bodies above, one request at a time *)
NextRoutes ==
  \/ \E r \in Reqs : ReceiveLogin(r)
  \/ \E r \in Reqs : ReceiveBody(r)
  \/ \E r \in Reqs : Authenticate(r)
  \/ \E r \in Reqs : Handle(r)
  \/ \E r \in Reqs : LoginFindUser(r)
  \/ \E r \in Reqs : LoginCompare(r)
  \/ \E r \in Reqs : AssetStep(r)
  \/ \E r \in Reqs : Deliver(r)

SpecRoutes == InitLoggedIn /\ [][NextRoutes]_vars

(* ------------------------------------------------------------------ *)
(* Properties                                                          *)
(* ------------------------------------------------------------------ *)
Done(r) == req[r].pc = "done"

\* the stored row of a row returned with its category
RowOf(d) ==
  [id |-> d.id, name |-> d.name, serialNumber |-> d.serialNumber,
   status |-> d.status, organizationId |-> d.organizationId,
   categoryId |-> d.categoryId]

\* C1: a List answered to a caller whose context is organization O returns
\* exactly the stored Assets of O: none of another organization, none of O
\* left out.
C1_ListExactlyOwn ==
  \A r \in Reqs :
    (Done(r) /\ req[r].kind = "getAssets" /\ req[r].user # NoUser) =>
      /\ req[r].res.status = 200
      /\ req[r].res.shape = "array"
      /\ { RowOf(d) : d \in req[r].res.data }
           = { a \in assets : a.organizationId = req[r].user.orgId }

\* a List has answered with the caller's Assets while another organization
\* holds an Asset too
C1_Witness ==
  \E r \in Reqs :
    /\ Done(r) /\ req[r].kind = "getAssets"
    /\ req[r].res.data # {}
    /\ \E a \in assets : a.organizationId # req[r].user.orgId

\* the path id of request q names an Asset of another organization
CrossTenant(q) ==
  /\ q.kind \in {"updateAsset", "deleteAsset"}
  /\ q.user # NoUser
  /\ \E a \in assets : a.id = q.id /\ a.organizationId # q.user.orgId

InvalidUpdateBody(q) ==
  \/ Falsy(q.name) /\ Falsy(q.serialNumber) /\ q.status \in {"undefined", ""}
  \/ Truthy(q.name) /\ Trim(q.name) = <<>>
  \/ Truthy(q.serialNumber) /\ Trim(q.serialNumber) = <<>>
  \/ q.status \notin {"undefined", "", "active", "maintenance", "retired"}

C2_Status ==
  \A r \in Reqs :
    (Done(r) /\ CrossTenant(req[r])) =>
      LET q == req[r]
      IN  /\ q.res.status \in {400, 404, 409}
          /\ q.res.status = 400 <=> (q.kind = "updateAsset" /\ InvalidUpdateBody(q))
          /\ q.res.status = 409 =>
               /\ q.kind = "updateAsset"
               /\ \E b \in assets : /\ b.serialNumber = q.serialNumber
                                    /\ b.organizationId = q.user.orgId
                                    /\ b.id # q.id

\* an Asset is removed or modified only by a step of a request of its own
\* organization
C2_Frame ==
  [][ \A a \in assets :
        a \notin assets' =>
          \E r \in Reqs : req'[r] # req[r] /\ req[r].user.orgId = a.organizationId
    ]_vars

Authenticated(u, kind, id, b) ==
  AuthenticateReq(
    AssetRequest(kind, <<HBearer, HSp, session[u.id]>>, id, b.name, b.serialNumber, b.status),
    jwtSecret, now)

ProbeBodies ==
  UpdateBodies \cup
  { Body(Undefined, <<"2">>, "undefined"),
    Body(NameB, Serial1, "retired"),
    Body(<<" ">>, Undefined, "undefined"),
    Body(NameB, Undefined, "bogus") }

\* C3: the response to an Update or Delete by a caller of O2 on an id is the
\* same whether the id names an Asset of another organization or no Asset at
\* all.
C3_NoExistenceLeak ==
  \A a \in assets : \A u \in Users :
    u.organizationId # a.organizationId =>
      /\ \A b \in ProbeBodies :
           LET q == Authenticated(u, "updateAsset", a.id, b)
           IN  /\ q.pc = "handler"
               /\ RunUpdate(assets, categories, q).q.res
                    = RunUpdate(assets \ {a}, categories, q).q.res
      /\ LET q == Authenticated(u, "deleteAsset", a.id, Body(Undefined, Undefined, "undefined"))
         IN  /\ q.pc = "handler"
             /\ RunDelete(assets, q).q.res = RunDelete(assets \ {a}, q).q.res

\* a Delete on another organization's Asset has been answered 404 while the
\* Asset is stored
C3_Witness ==
  \E r \in Reqs :
    /\ Done(r) /\ CrossTenant(req[r])
    /\ req[r].kind = "deleteAsset"
    /\ req[r].res.status = 404

AssetKinds == {"getAssets", "createAsset", "updateAsset", "deleteAsset"}

\* the token word of the request's authorization header
Presented(q) == HeaderToken(q.hdr)

ClaimsOf(t) == [userId |-> t.payload.userId, orgId |-> t.payload.orgId]

\* the middleware has dealt with asset request q
PastGate(q) == q.kind \in AssetKinds /\ q.pc \notin {"idle", "gate"}

\* a handler has taken a step of asset request q
InHandler(q) ==
  /\ q.kind \in AssetKinds
  /\ \/ q.pc \notin {"idle", "gate", "done"}
     \/ q.calls > 0
     \/ q.pc = "done" /\ q.res.status \notin {401, 403, 500}

C4_State ==
  \A r \in Reqs :
    LET q == req[r]
    IN  /\ (PastGate(q) /\ TokenMissing(Presented(q))) =>
             /\ q.pc = "done"
             /\ q.res.status = 401
             /\ q.calls = 0
             /\ q.user = NoUser
        /\ InHandler(q) =>
             /\ IsJwt(Presented(q))
             /\ jwtSecret # NoSecret
             /\ Presented(q)[1].sig = Hmac(jwtSecret, Presented(q)[1].payload)
             /\ q.user = ClaimsOf(Presented(q)[1])

C4_Step ==
  /\ \A r \in Reqs :
       (req[r].pc = "gate" /\ req'[r].pc \notin {"gate", "done"}) =>
         /\ JwtVerifies(Presented(req[r]), jwtSecret, now)
         /\ req'[r].pc = "handler"
         /\ req'[r].user = ClaimsOf(Presented(req[r])[1])
  /\ store' # store =>
       \E r \in Reqs : /\ req'[r] # req[r]
                       /\ req[r].pc \notin {"idle", "gate", "done"}
                       /\ req[r].user # NoUser

\* C4: a request to an asset route without a token is answered 401 by the
\* middleware and reaches neither a handler nor the storage; no handler step
\* and no storage change happens for a request unless the middleware has
\* verified that request's token and attached its userId and orgId.
C4_GateFirst == []C4_State /\ [][C4_Step]_vars

\* a create request without a token has been answered 401
C4_Witness ==
  \E r \in Reqs :
    /\ Done(r) /\ req[r].kind = "createAsset"
    /\ TokenMissing(Presented(req[r]))
    /\ req[r].res.status = 401

\* token fails jwt.verify at time t: malformed, signed otherwise, or expired
FailsVerification(token, t) ==
  /\ ~TokenMissing(token)
  /\ \/ ~IsJwt(token)
     \/ token[1].sig # Hmac(jwtSecret, token[1].payload)
     \/ t >= token[1].payload.exp

HasBearerPrefix(hdr) == hdr # NoHeader /\ hdr # <<>> /\ hdr[1] = HBearer

\* C6: a request whose authorization header lacks the Bearer prefix is
\* answered as a request without the header is: 401, whatever follows in the
\* header.
C6_PrefixRequired ==
  \A r \in Reqs :
    (PastGate(req[r]) /\ ~HasBearerPrefix(req[r].hdr)) =>
      /\ req[r].pc = "done"
      /\ req[r].res = ErrorRes(401, "Access denied: No token")

C7_Issued ==
  \A u \in Users :
    session[u.id] # NoToken =>
      /\ ClaimsOf(session[u.id]) = [userId |-> u.id, orgId |-> u.organizationId]
      /\ session[u.id].payload.exp = session[u.id].payload.iat + 24

C7_Step ==
  \A r \in Reqs :
    (req[r].kind \in AssetKinds /\ req[r].pc = "gate" /\ req'[r].pc # "gate") =>
      \A u \in Users :
        LET t == session[u.id]
            rejected == /\ req'[r].pc = "done"
                        /\ req'[r].res = ErrorRes(403, "Invalid session")
                        /\ req'[r].user = NoUser
        IN  t # NoToken =>
              /\ Presented(req[r]) = <<t>> =>
                   IF now < t.payload.iat + 24
                     THEN /\ req'[r].pc = "handler"
                          /\ req'[r].user = [userId |-> u.id, orgId |-> u.organizationId]
                     ELSE rejected
              /\ (\E a \in Alterations(t) : Presented(req[r]) = <<a>>) => rejected

\* C7: a token issued by a successful login carries the user's id and
\* organization and expires 24 hours after issuance; presented to the
\* middleware less than 24 hours after issuance it verifies and yields those
\* same userId and orgId, whatever the storage has become; presented at or
\* after its expiry, or altered, it is rejected.
C7_TokenRoundTrip == []C7_Issued /\ [][C7_Step]_vars

\* a token as issued has been rejected: it had expired
C7_Witness ==
  \E r \in Reqs : \E u \in UserIds :
    /\ Done(r) /\ req[r].kind \in AssetKinds
    /\ session[u] # NoToken
    /\ Presented(req[r]) = <<session[u]>>
    /\ req[r].res.status = 403

\* C8: with the signing secret absent no login issues a token, no request
\* presenting a token passes the middleware, both are answered with the
\* configuration error, and nothing is signed or verified with a default key.
C8_NoDefaultKey ==
  jwtSecret = NoSecret =>
    /\ \A r \in Reqs :
         /\ (req[r].kind = "login" /\ Done(r)) => req[r].res.status # 200
         /\ (PastGate(req[r]) /\ ~TokenMissing(Presented(req[r]))) =>
              /\ req[r].pc = "done"
              /\ req[r].res = ErrorRes(500, "Server configuration error")
    /\ \A u \in UserIds : session[u] = NoToken

\* the users the credentials of login request q name
Credentialed(q) ==
  { u \in Users : u.email = q.email /\ u.password = Hash(q.password) }

ReachesLookup(q) ==
  /\ q.kind = "login"
  /\ Truthy(q.email) /\ Truthy(q.password)
  /\ emailRegex(q.email)
  /\ jwtSecret # NoSecret

LocalAtDomainTld(e) ==
  /\ \A i \in 1..Len(e) : e[i] # " "
  /\ Cardinality({ i \in 1..Len(e) : e[i] = "@" }) = 1
  /\ \E at \in 2..Len(e) :
       /\ e[at] = "@"
       /\ \E dot \in (at + 2)..(Len(e) - 1) : e[dot] = "."

\* login request q lacks a field or its email is not of the shape
BadLoginBody(q) ==
  \/ q.email = Undefined \/ q.email = <<>>
  \/ q.password = Undefined \/ q.password = <<>>
  \/ ~LocalAtDomainTld(q.email)

\* C11: a login whose email or password is missing, or whose email is not of
\* the shape local@domain.tld, is answered 400 before any user lookup: no
\* storage call is made for it.
C11_LoginValidated ==
  \A r \in Reqs :
    (req[r].kind = "login" /\ BadLoginBody(req[r])) =>
      /\ req[r].pc \in {"handler", "done"}
      /\ req[r].calls = 0
      /\ req[r].pc = "done" => req[r].res.status = 400

\* a login with both fields and an email without a top-level part has been
\* answered 400
C11_Witness ==
  \E r \in Reqs :
    /\ Done(r) /\ req[r].kind = "login"
    /\ req[r].email = MalformedEmail
    /\ req[r].password = Password123
    /\ req[r].res.status = 400
    /\ req[r].calls = 0

\* request r is a Create past its validation and this step answers it
CreateAnswered(r) ==
  /\ req[r].kind = "createAsset"
  /\ req[r].pc \in {"findSerial", "findCategory", "createCategory", "insert"}
  /\ req'[r].pc = "done"

\* the stored Assets that hold the serial number of request q, trimmed
Holders(q) == { a \in assets : a.serialNumber = Trim(q.serialNumber) }
OwnHolders(q) == { a \in Holders(q) : a.organizationId = q.user.orgId }

C12_AtMostOne ==
  \A a \in assets, b \in assets :
    (a.organizationId = b.organizationId /\ a.serialNumber = b.serialNumber) => a = b

C12_Step ==
  \A r \in Reqs :
    CreateAnswered(r) =>
      LET q == req[r]
          status == req'[r].res.status
      IN  /\ status \in {201, 409}
          /\ OwnHolders(q) # {} => (status = 409 /\ assets' = assets)
          /\ Holders(q) = {} => status = 201
          /\ status = 201 =>
               /\ OwnHolders(q) = {}
               /\ \E a \in assets' \ assets :
                    /\ assets' = assets \cup {a}
                    /\ a.serialNumber = Trim(q.serialNumber)
                    /\ a.organizationId = q.user.orgId

C13_CrossOrgSerialAllowed ==
  [][ \A r \in Reqs :
        (CreateAnswered(r) /\ Holders(req[r]) # {} /\ OwnHolders(req[r]) = {}) =>
          /\ req'[r].res.status = 201
          /\ \E a \in assets' \ assets :
               /\ a.serialNumber = Trim(req[r].serialNumber)
               /\ a.organizationId = req[r].user.orgId
    ]_vars

InsertRefused(r) ==
  /\ req[r].kind = "createAsset"
  /\ req[r].pc = "insert"
  /\ req'[r] # req[r]
  /\ Holders(req[r]) # {}

\* this step is the write of Update r and the index refuses the row
WriteRefused(r) ==
  /\ req[r].kind = "updateAsset"
  /\ req[r].pc = "updateMany"
  /\ req'[r] # req[r]
  /\ Truthy(req[r].serialNumber)
  /\ \E a \in assets : a.id = req[r].id /\ a.organizationId = req[r].user.orgId
  /\ \E b \in Holders(req[r]) : b.id # req[r].id

\* C15: when the unique index refuses the insert of a Create or the write of
\* an Update whose pre-check had passed, the response is 409, never 500, and
\* nothing is stored.
C15_UniqueViolationIsConflict ==
  [][ \A r \in Reqs :
        (InsertRefused(r) \/ WriteRefused(r)) =>
          /\ req'[r].pc = "done"
          /\ req'[r].res.status = 409
          /\ req'[r].res.status # 500
          /\ store' = store
    ]_vars

\* a Create whose serialNumber another organization holds has been refused
\* at the insert and answered 409
C15_Witness ==
  \E r \in Reqs :
    /\ Done(r) /\ req[r].kind = "createAsset"
    /\ req[r].calls >= 3
    /\ req[r].res.status = 409
    /\ Holders(req[r]) # {}
    /\ OwnHolders(req[r]) = {}

\* t is raw without its surrounding white space
Stripped(raw, t) ==
  /\ t # <<>>
  /\ t[1] # " " /\ t[Len(t)] # " "
  /\ \E i \in 0..(Len(raw) - Len(t)) :
       /\ SubSeq(raw, i + 1, i + Len(t)) = t
       /\ \A k \in 1..Len(raw) : (k <= i \/ k > i + Len(t)) => raw[k] = " "

Validated(q) ==
  /\ q.kind \in AssetKinds
  /\ q.user # NoUser
  /\ q.pc \notin {"idle", "gate", "handler"}

\* a field of the body is absent, or empty once trimmed
Missing(v) == v = Undefined \/ Trim(v) = <<>>

\* the body has a status and it is none of the three
StatusInvalid(status) ==
  status # "undefined" /\ status \notin {"active", "maintenance", "retired"}

\* C17: a Create whose name or serialNumber is absent or empty after
\* trimming, or whose body has a status (the empty string included) that is
\* not active, maintenance or retired, is answered 400 and inserts nothing.
C17_CreateRejected ==
  \A r \in Reqs :
    LET q == req[r]
    IN  ( /\ q.kind = "createAsset"
          /\ Validated(q)
          /\ Missing(q.name) \/ Missing(q.serialNumber) \/ StatusInvalid(q.status) ) =>
          /\ q.pc = "done"
          /\ q.res.status = 400
          /\ q.calls = 0

\* C18: an Update that supplies none of name, serialNumber, status, or a
\* name or serialNumber that is empty after trimming (the empty string
\* included, also next to a valid field), or a status that is not active,
\* maintenance or retired, is answered 400 and modifies nothing.
C18_UpdateRejected ==
  \A r \in Reqs :
    LET q == req[r]
    IN  ( /\ q.kind = "updateAsset"
          /\ Validated(q)
          /\ \/ q.name = Undefined /\ q.serialNumber = Undefined /\ q.status = "undefined"
             \/ q.name # Undefined /\ Trim(q.name) = <<>>
             \/ q.serialNumber # Undefined /\ Trim(q.serialNumber) = <<>>
             \/ StatusInvalid(q.status) ) =>
          /\ q.pc = "done"
          /\ q.res.status = 400
          /\ q.calls = 0

\* an asset of the caller's organization other than the target of Update q
\* holds the serialNumber q supplies
HeldByOther(q) ==
  /\ q.serialNumber # Undefined
  /\ \E a \in assets :
       /\ a.organizationId = q.user.orgId
       /\ a.id # q.id
       /\ a.serialNumber = q.serialNumber

\* the target of Update q holds the serialNumber q supplies
OwnSerial(q) ==
  /\ q.serialNumber # Undefined
  /\ \E a \in assets :
       /\ a.organizationId = q.user.orgId
       /\ a.id = q.id
       /\ a.serialNumber = q.serialNumber

\* Update r, past its validation, takes a step
UpdateSteps(r) ==
  /\ req[r].kind = "updateAsset"
  /\ Validated(req[r])
  /\ req[r].pc # "done"
  /\ req'[r] # req[r]

\* C19: an Update whose serialNumber is held by a different Asset of the
\* caller's organization writes nothing and its answer is 409; an Update
\* that supplies the target's own current serialNumber is not refused as a
\* duplicate: it is answered 200 and the target keeps that serialNumber.
C19_UpdateDuplicate ==
  [][ \A r \in Reqs :
        UpdateSteps(r) =>
          LET q == req[r]
          IN  /\ HeldByOther(q) =>
                   /\ assets' = assets
                   /\ req'[r].pc = "done" => req'[r].res.status = 409
                   /\ q.pc = "updateMany" => req'[r].pc = "done"
              /\ OwnSerial(q) =>
                   /\ req'[r].pc = "done" => req'[r].res.status = 200
                   /\ \E a \in assets' :
                        /\ a.id = q.id
                        /\ a.organizationId = q.user.orgId
                        /\ a.serialNumber = q.serialNumber
    ]_vars

\* an Update has been answered 409 while another Asset of the caller's
\* organization holds the serialNumber it supplied
C19_Witness ==
  \E r \in Reqs :
    /\ Done(r) /\ req[r].kind = "updateAsset"
    /\ req[r].res.status = 409
    /\ HeldByOther(req[r])

\* field f of row b is that of row a, or the body's value v trimmed; it is
\* that of a when the body has no such field
FieldKept(a, b, f, v) ==
  /\ b[f] = a[f] \/ Stripped(v, b[f])
  /\ v = Undefined => b[f] = a[f]
  /\ (v # Undefined /\ v # <<>>) => Stripped(v, b[f])

\* a step of Update r that writes: one row, the one matched by id and the
\* caller's organization, changes, and only in its supplied fields
C20_Step ==
  \A r \in Reqs :
    ( /\ req[r].kind = "updateAsset"
      /\ req'[r] # req[r]
      /\ assets' # assets ) =>
      LET q == req[r]
      IN  \E a \in assets, b \in assets' :
            /\ a.id = q.id /\ a.organizationId = q.user.orgId
            /\ assets' = (assets \ {a}) \cup {b}
            /\ Cardinality(assets') = Cardinality(assets)
            /\ b.id = a.id
            /\ b.organizationId = a.organizationId
            /\ b.categoryId = a.categoryId
            /\ FieldKept(a, b, "name", q.name)
            /\ FieldKept(a, b, "serialNumber", q.serialNumber)
            /\ b.status = IF q.status \in {"undefined", ""} THEN a.status
                          ELSE q.status

\* an Update answered 200, sent again, is answered alike and writes nothing
C20_Idempotent ==
  \A r \in Reqs :
    ( /\ Done(r) /\ req[r].kind = "updateAsset"
      /\ req[r].res.status = 200 ) =>
      LET again == RunUpdate(assets, categories,
                             [req[r] EXCEPT !.pc = "handler", !.calls = 0,
                                            !.res = NoRes])
      IN  /\ again.rows = assets
          /\ again.q.res = req[r].res

\* C20: a successful Update changes only the supplied fields among name,
\* serialNumber and status of the single Asset matched by id and the
\* caller's organization; the unsupplied fields, the Asset's id,
\* organizationId and categoryId and every other Asset stay unchanged, and
\* the same Update applied a second time leaves the state as after the first.
C20_PartialUpdate == []C20_Idempotent /\ [][C20_Step]_vars

\* an Update that supplies only a status has been answered 200 while another
\* Asset is stored
C20_Witness ==
  \E r \in Reqs :
    /\ Done(r) /\ req[r].kind = "updateAsset"
    /\ req[r].name = Undefined /\ req[r].serialNumber = Undefined
    /\ req[r].status = "maintenance"
    /\ req[r].res.status = 200
    /\ \E a \in assets : a.id # req[r].id

\* C21: every Update answered 200 carries in its body the Asset with the
\* given id as stored after the update, together with its Category, and that
\* Asset belongs to the caller's organization, also when other requests
\* interleave between the update write and the re-read.
C21_UpdateReturnsAsset ==
  \A r \in Reqs :
    ( /\ Done(r) /\ req[r].kind = "updateAsset"
      /\ req[r].res.status = 200 ) =>
      \E a \in assets :
        /\ a.id = req[r].id
        /\ a.organizationId = req[r].user.orgId
        /\ req[r].res.shape = "object"
        /\ req[r].res.data = {WithCategory(categories, a)}

\* Delete r, past the gate, is answered in this step
DeleteAnswered(r) ==
  /\ req[r].kind = "deleteAsset"
  /\ Validated(req[r])
  /\ req[r].pc # "done"
  /\ req'[r].pc = "done"

\* the Assets of the caller's organization with the id of request q
OwnTarget(q) ==
  { a \in assets : a.id = q.id /\ a.organizationId = q.user.orgId }

\* a Delete on a stored Asset of the caller removes that row and no other
\* and is acknowledged; on an id with no such row (a second Delete of the
\* same id included) it is answered 404 and removes nothing
C22_DeleteStep ==
  \A r \in Reqs :
    DeleteAnswered(r) =>
      /\ categories' = categories
      /\ IF OwnTarget(req[r]) # {}
           THEN /\ Cardinality(OwnTarget(req[r])) = 1
                /\ assets' = assets \ OwnTarget(req[r])
                /\ req'[r].res.status = 200
                /\ req'[r].res.data = {[message |-> "Asset deleted successfully"]}
           ELSE /\ assets' = assets
                /\ req'[r].res.status = 404

\* a row that enters the table has an id no row ever had
C22_FreshIds ==
  /\ \A a \in assets' : (\A b \in assets : b.id # a.id) => a.id >= nextAssetId
  /\ nextAssetId' >= nextAssetId
  /\ \A a \in assets' : a.id < nextAssetId'

\* C22: a Delete by a caller of organization O on the id of an Asset owned by
\* O is acknowledged and removes exactly that Asset for good (its id never
\* returns to the table, so no later List shows it), leaving every other
\* Asset and every Category unchanged; a second Delete of the same id finds
\* no row, is answered 404 and changes nothing.
C22_HardDelete == [][C22_DeleteStep /\ C22_FreshIds]_vars

\* a Delete has been acknowledged while another Asset stays stored
C22_Witness ==
  \E r \in Reqs :
    /\ Done(r) /\ req[r].kind = "deleteAsset"
    /\ req[r].res.status = 200
    /\ \A a \in assets : a.id # req[r].id
    /\ assets # {}

\* C23: after any sequence and interleaving of Create, Update and Delete
\* requests every stored Asset's categoryId refers to a stored Category whose
\* organizationId is the Asset's organizationId.
C23_CategoryOfOwnOrg ==
  \A a \in assets :
    \E c \in categories :
      /\ c.id = a.categoryId
      /\ c.organizationId = a.organizationId
      /\ \A d \in categories : d.id = c.id => d = c

\* Assets of both organizations are stored, one of them updated
C23_Witness ==
  /\ \E a \in assets : a.organizationId = "acme"
  /\ \E a \in assets : a.organizationId = "globex" /\ a.status = "maintenance"

\* the rows of the Asset table selected by the where clause of the storage
\* call that request q is about to make
RowsSelected(q) ==
  IF q.pc = "findMany" THEN { a \in assets : a.organizationId = q.user.orgId }
  ELSE IF q.pc = "findSerial" THEN FindBySerial(assets, q.serialNumber)
  ELSE IF q.pc \in {"updateMany", "deleteMany"}
    THEN MatchIdOrg(assets, q.id, q.user.orgId)
  ELSE IF q.pc = "reread" THEN { a \in assets : a.id = q.id }
  ELSE {}

\* C24: every read or write of the Asset table by list, create, update or
\* delete is filtered by the caller's orgId: the rows a handler step selects
\* all belong to the caller's organization.
C24_OrgFiltered ==
  \A r \in Reqs :
    (req[r].kind \in AssetKinds /\ req[r].user # NoUser) =>
      \A a \in RowsSelected(req[r]) : a.organizationId = req[r].user.orgId

\* C25: in login, create, update and delete a validation failure is
\* reported before any storage call: a request answered 400 has made no
\* read and no write on the storage.
C25_ValidationFirst ==
  \A r \in Reqs :
    (Done(r) /\ req[r].res.status = 400) => req[r].calls = 0

\* an Update has been answered 400 while Assets are stored
C25_Witness ==
  \E r \in Reqs :
    /\ Done(r) /\ req[r].res.status = 400
    /\ req[r].kind = "updateAsset"
    /\ assets # {}

\* C26: Create makes a Category only when the caller's organization has
\* none and otherwise reuses one, so all Assets of an organization created
\* without a category share one single fallback Category, also when the
\* first Creates of the organization run concurrently.
C26_OneFallbackCategory ==
  /\ \A a, b \in assets :
       a.organizationId = b.organizationId => a.categoryId = b.categoryId
  /\ \A o \in Orgs : Cardinality(CategoriesOfOrg(categories, o)) <= 1

\* Update q supplies a status of the enumeration and nothing else
StatusOnly(q) ==
  /\ q.kind = "updateAsset"
  /\ q.user # NoUser
  /\ q.name = Undefined /\ q.serialNumber = Undefined
  /\ q.status \in {"active", "maintenance", "retired"}

\* an answered status Update on an Asset of the caller was answered 200 with
\* the Asset, which has the requested status
C27_Answered ==
  \A r \in Reqs :
    (Done(r) /\ StatusOnly(req[r]) /\ OwnTarget(req[r]) # {}) =>
      /\ req[r].res.status = 200
      /\ \A a \in OwnTarget(req[r]) :
           /\ a.status = req[r].status
           /\ req[r].res.data = {WithCategory(categories, a)}

\* whatever status the Asset has, each step of the Update leaves it stored
\* with the requested status and its other fields as they were
C27_Step ==
  \A r \in Reqs :
    (UpdateSteps(r) /\ StatusOnly(req[r])) =>
      \A a \in OwnTarget(req[r]) :
        /\ [a EXCEPT !.status = req[r].status] \in assets'
        /\ req'[r].res.status \in {0, 200}

\* C27: Asset.status has no transition restrictions: for every pair of
\* statuses s, s' of active, maintenance, retired (s = s' included) an Update
\* with only the status s' by the owning organization on an Asset of status s
\* succeeds and leaves the Asset with status s'.
C27_FreeTransitions == []C27_Answered /\ [][C27_Step]_vars

\* a retired Asset has been moved back to active
C27_Witness ==
  \E r \in Reqs :
    /\ Done(r) /\ StatusOnly(req[r])
    /\ req[r].status = "active"
    /\ req[r].res.status = 200
    /\ \E a \in OwnTarget(req[r]) : a.name = NameB

\* a string that is not empty and has no white space at either end
Clean(t) == t # <<>> /\ t[1] # " " /\ t[Len(t)] # " "

\* C28: after any sequence of Create and Update requests with arbitrary
\* bodies every stored Asset has a status among active, maintenance and
\* retired and a name and a serialNumber that are non-empty and carry no
\* leading or trailing white space.
C28_StoredFieldsClean ==
  \A a \in assets :
    /\ a.status \in {"active", "maintenance", "retired"}
    /\ a.name # Undefined /\ Clean(a.name)
    /\ a.serialNumber # Undefined /\ Clean(a.serialNumber)

\* an Asset created from a name with a leading blank is stored, and an
\* Update with an empty name and a status has been answered 200
C28_Witness ==
  /\ \E a \in assets : a.name = Trim(NameA) /\ NameA # Trim(NameA)
  /\ \E r \in Reqs :
       /\ Done(r) /\ req[r].kind = "updateAsset"
       /\ req[r].name = EmptyStr
       /\ req[r].res.status = 200

\* C29: a request answered with an error status (400, 401, 403, 404, 409
\* or 500) by login, list, create, update or delete has left the storage as
\* it was: it has created, modified and deleted no Asset and no Category, in
\* particular when it is a Create that ends in Conflict.
C29_ErrorsWriteNothing ==
  \A r \in Reqs :
    (Done(r) /\ req[r].res.status >= 400) => req[r].writes = 0

\* request r has been received and not answered yet
Pending(r) == req[r].pc \notin {"idle", "done"}

\* the gate or the handler of request r can take a step
CanProceed(r) ==
  \/ ENABLED Authenticate(r)
  \/ ENABLED Handle(r)
  \/ ENABLED HandlerRejected(r)
  \/ ENABLED LoginFindUser(r)
  \/ ENABLED LoginCompare(r)
  \/ ENABLED AssetStep(r)

\* C30: every request to login or to an Asset route receives exactly one
\* response, for every body (values that are absent or are not strings
\* included) and every storage outcome: no path through the gate or a
\* handler leaves the request unanswered, so a request that is received and
\* not answered yet always has a step to take towards its response.
C30_AlwaysAnswered ==
  \A r \in Reqs : Pending(r) => CanProceed(r)

====
